---- MODULE Spec2Model ----
(***************************************************************************)
(* WebSocketClient (websocket-async): a promise-based adapter over the     *)
(* event-driven WebSocket.  The model follows websocket-client.js: the two *)
(* queues _receiveDataQueue and _receiveCallbacksQueue, the terminal       *)
(* record _closeEvent, the transport handle _socket, the promises returned *)
(* by connect/receive/disconnect, the microtask that runs the then-        *)
(* callback of connect, and the events of every WebSocket the adapter has  *)
(* created (a WebSocket keeps firing events at the listeners installed on  *)
(* it also after the adapter has moved on to another one).                 *)
(***************************************************************************)
EXTENDS Integers, Sequences, FiniteSets, TLC

\* ---- bounds of the exploration ----
MaxSockets == 3     \* connect() calls, hence WebSockets created
MaxCalls == 6       \* promises created by connect/receive/disconnect, plus send() calls
MaxMsgs == 2        \* message events, over all WebSockets

Payloads == {"hi"}

VARIABLES
    sock,        \* the WebSockets created so far: readyState, listeners, counters
    cur,         \* this._socket: index into sock, 0 while undefined
    closeEvent,  \* this._closeEvent
    dataQ,       \* this._receiveDataQueue
    cbQ,         \* this._receiveCallbacksQueue
    prom,        \* every promise handed out, in creation order
    mt,          \* microtask queue: connect promises whose then-callback is due
    wire,        \* calls of WebSocket.send made by the adapter
    sendLog      \* outcome of every send() call

vars == <<sock, cur, closeEvent, dataQ, cbQ, prom, mt, wire, sendLog>>

\* ---- values ----
Null == [t |-> "null", sock |-> 0, n |-> 0]
\* the CloseEvent fired by WebSocket s
CloseEv(s) == [t |-> "close", sock |-> s, n |-> 0]
\* the n-th MessageEvent.data of WebSocket s
Msg(s, n) == [t |-> "msg", sock |-> s, n |-> n]
\* new Error('Not connected.')
NotConnectedError == [t |-> "error", sock |-> 0, n |-> 0]
\* the Event passed to the 'error' listener of WebSocket s
ErrorEv(s) == [t |-> "errorevent", sock |-> s, n |-> 0]
\* the value of a promise resolved by resolve() with no argument
Undefined == [t |-> "undefined", sock |-> 0, n |-> 0]

\* the failure without the terminal record: always new Error('Not connected.')
ErrorOnly == NotConnectedError

\* this._closeEvent || new Error('Not connected.')
CloseEventOrError == IF closeEvent # Null THEN closeEvent ELSE NotConnectedError

\* get connected(): this._socket != null && readyState === WebSocket.OPEN
connected == cur # 0 /\ sock[cur].st = "open"

\* get dataAvailable()
dataAvailable == Len(dataQ)

\* ---- promises ----
\* op: the method that returned it; st: its state; val: its value or reason;
\* sk: this._socket when it was created (for connect: the WebSocket it opened);
\* k: for receive(), its rank among the receive() calls issued while connected
\*    to sk (0 when issued while not connected);
\* susp: it was registered in _receiveCallbacksQueue; next: the connect promise
\* chained on it with then() (0 if none).
Promise(op, st, val, sk, k, susp, next) ==
    [op |-> op, st |-> st, val |-> val, sk |-> sk, k |-> k, susp |-> susp, next |-> next]

NProm == Len(prom)

Settle(ps, i, st, val) ==
    IF ps[i].st = "pending" THEN [ps EXCEPT ![i].st = st, ![i].val = val] ELSE ps

\* ---- construction: constructor() calls _reset() ----
Init ==
    /\ sock = <<>>
    /\ cur = 0
    /\ closeEvent = Null
    /\ dataQ = <<>>
    /\ cbQ = <<>>
    /\ prom = <<>>
    /\ mt = <<>>
    /\ wire = <<>>
    /\ sendLog = <<>>

\* ---- the WebSocket objects ----
\* st: readyState; wired: handleOpen has installed the message/close listeners;
\* conn: the promise of the _setupListenersOnConnect() call made on it;
\* delivered: message events fired so far; nrecv: receive() calls issued while
\* connected to it; solo: every WebSocket created before it had already closed
\* when it was created.
NewWebSocket(c) ==
    [st |-> "connecting", wired |-> FALSE, conn |-> c, delivered |-> 0, nrecv |-> 0,
     solo |-> \A t \in DOMAIN sock : sock[t].st = "closed"]

NConnects == Cardinality({i \in DOMAIN prom : prom[i].op = "connect"})

\* promises created and send() calls made so far
NCalls == Len(prom) + Len(sendLog)

\* message events fired so far
NMsgs == LET RECURSIVE Sum(_)
             Sum(s) == IF s = 0 THEN 0 ELSE sock[s].delivered + Sum(s - 1)
         IN  Sum(Len(sock))

\* disconnect without the connected check: it registers its entry and calls
\* close() on whatever WebSocket there is
disconnectUnchecked(next, more) ==
    IF cur = 0
    THEN /\ prom' = Append(prom,
                Promise("disconnect", "resolved", closeEvent, cur, 0, FALSE, next)) \o more
         /\ mt' = IF next # 0 THEN Append(mt, next) ELSE mt
         /\ UNCHANGED <<cbQ, sock>>
    ELSE /\ prom' = Append(prom,
                Promise("disconnect", "pending", Null, cur, 0, TRUE, next)) \o more
         /\ cbQ' = Append(cbQ, [kind |-> "disc", p |-> Len(prom) + 1])
         /\ sock' = [sock EXCEPT ![cur].st =
                        IF sock[cur].st = "closed" THEN "closed" ELSE "closing"]
         /\ UNCHANGED mt

\* ---- disconnect(code, reason) ----
\* next: the connect promise chained on the returned promise (0 for a call of
\* the user); more: the promises created right after it in the same call.
disconnect(next, more) ==
    IF ~connected
    THEN /\ prom' = Append(prom,
                Promise("disconnect", "resolved", closeEvent, cur, 0, FALSE, next)) \o more
         /\ mt' = IF next # 0 THEN Append(mt, next) ELSE mt
         /\ UNCHANGED <<cbQ, sock>>
    ELSE /\ prom' = Append(prom,
                Promise("disconnect", "pending", Null, cur, 0, TRUE, next)) \o more
         /\ cbQ' = Append(cbQ, [kind |-> "disc", p |-> NProm + 1])
         /\ sock' = [sock EXCEPT ![cur].st = "closing"]
         /\ UNCHANGED mt

Disconnect ==
    /\ NCalls + 1 <= MaxCalls
    /\ disconnect(0, <<>>)
    /\ UNCHANGED <<cur, closeEvent, dataQ, wire, sendLog>>

\* ---- connect(url, protocols): the synchronous part ----
\* this.disconnect().then(...): the then-callback runs in a later microtask.
connect ==
    /\ NConnects < MaxSockets
    /\ NCalls + 2 <= MaxCalls
    /\ disconnect(NProm + 2,
                  <<Promise("connect", "pending", Null, 0, 0, FALSE, 0)>>)
    /\ UNCHANGED <<cur, closeEvent, dataQ, wire, sendLog>>

\* ---- _reset() ----
reset ==
    /\ dataQ' = <<>>
    /\ cbQ' = <<>>
    /\ closeEvent' = Null

\* ---- connect: the then-callback, with _setupListenersOnConnect() ----
connectThen ==
    /\ mt # <<>>
    /\ LET c == Head(mt) IN
         /\ reset
         /\ sock' = Append(sock, NewWebSocket(c))
         /\ cur' = Len(sock) + 1
         /\ prom' = [prom EXCEPT ![c].sk = Len(sock) + 1]
         /\ mt' = Tail(mt)
    /\ UNCHANGED <<wire, sendLog>>

\* send without the connected check: the data goes to the transport anyway
sendUnchecked(data) ==
    /\ NCalls + 1 <= MaxCalls
    /\ cur # 0
    /\ sendLog' = Append(sendLog, [ok |-> connected, err |-> Null])
    /\ wire' = Append(wire, [sock |-> cur, data |-> data])
    /\ UNCHANGED <<sock, cur, closeEvent, dataQ, cbQ, prom, mt>>

\* ---- send(data) ----
send(data) ==
    /\ NCalls + 1 <= MaxCalls
    /\ IF ~connected
       THEN /\ sendLog' = Append(sendLog, [ok |-> FALSE, err |-> CloseEventOrError])
            /\ UNCHANGED wire
       ELSE /\ sendLog' = Append(sendLog, [ok |-> TRUE, err |-> Null])
            /\ wire' = Append(wire, [sock |-> cur, data |-> data])
    /\ UNCHANGED <<sock, cur, closeEvent, dataQ, cbQ, prom, mt>>

\* receive testing the connection before the buffer
receiveConnectedFirst ==
    /\ NCalls + 1 <= MaxCalls
    /\ LET k == IF connected THEN sock[cur].nrecv + 1 ELSE 0 IN
         /\ sock' = IF connected THEN [sock EXCEPT ![cur].nrecv = k] ELSE sock
         /\ IF ~connected
            THEN /\ prom' = Append(prom,
                        Promise("receive", "rejected", CloseEventOrError, cur, k, FALSE, 0))
                 /\ UNCHANGED <<dataQ, cbQ>>
            ELSE IF dataQ # <<>>
            THEN /\ prom' = Append(prom,
                        Promise("receive", "resolved", Head(dataQ), cur, k, FALSE, 0))
                 /\ dataQ' = Tail(dataQ)
                 /\ UNCHANGED cbQ
            ELSE /\ prom' = Append(prom,
                        Promise("receive", "pending", Null, cur, k, TRUE, 0))
                 /\ cbQ' = Append(cbQ, [kind |-> "recv", p |-> NProm + 1])
                 /\ UNCHANGED dataQ
    /\ UNCHANGED <<cur, closeEvent, mt, wire, sendLog>>

\* receive returning the oldest buffered message without removing it
receivePeek ==
    /\ NCalls + 1 <= MaxCalls
    /\ LET k == IF connected THEN sock[cur].nrecv + 1 ELSE 0 IN
         /\ sock' = IF connected THEN [sock EXCEPT ![cur].nrecv = k] ELSE sock
         /\ IF dataQ # <<>>
            THEN /\ prom' = Append(prom,
                        Promise("receive", "resolved", Head(dataQ), cur, k, FALSE, 0))
                 /\ UNCHANGED <<dataQ, cbQ>>
            ELSE IF ~connected
            THEN /\ prom' = Append(prom,
                        Promise("receive", "rejected", CloseEventOrError, cur, k, FALSE, 0))
                 /\ UNCHANGED <<dataQ, cbQ>>
            ELSE /\ prom' = Append(prom,
                        Promise("receive", "pending", Null, cur, k, TRUE, 0))
                 /\ cbQ' = Append(cbQ, [kind |-> "recv", p |-> NProm + 1])
                 /\ UNCHANGED dataQ
    /\ UNCHANGED <<cur, closeEvent, mt, wire, sendLog>>

\* ---- receive() ----
receive ==
    /\ NCalls + 1 <= MaxCalls
    /\ LET k == IF connected THEN sock[cur].nrecv + 1 ELSE 0 IN
         /\ sock' = IF connected THEN [sock EXCEPT ![cur].nrecv = k] ELSE sock
         /\ IF dataQ # <<>>
            THEN /\ prom' = Append(prom,
                        Promise("receive", "resolved", Head(dataQ), cur, k, FALSE, 0))
                 /\ dataQ' = Tail(dataQ)
                 /\ UNCHANGED cbQ
            ELSE IF ~connected
            THEN /\ prom' = Append(prom,
                        Promise("receive", "rejected", CloseEventOrError, cur, k, FALSE, 0))
                 /\ UNCHANGED <<dataQ, cbQ>>
            ELSE /\ prom' = Append(prom,
                        Promise("receive", "pending", Null, cur, k, TRUE, 0))
                 /\ cbQ' = Append(cbQ, [kind |-> "recv", p |-> NProm + 1])
                 /\ UNCHANGED dataQ
    /\ UNCHANGED <<cur, closeEvent, mt, wire, sendLog>>

\* ---- transport events; a task runs only when no microtask is due ----
\* 'open' on WebSocket s: handleOpen
handleOpen(s) ==
    /\ mt = <<>>
    /\ sock[s].st = "connecting"
    /\ sock' = [sock EXCEPT ![s].st = "open", ![s].wired = TRUE]
    /\ prom' = Settle(prom, sock[s].conn, "resolved", Undefined)
    /\ UNCHANGED <<cur, closeEvent, dataQ, cbQ, mt, wire, sendLog>>

\* 'error' on WebSocket s before it opened: the listener is reject; the close
\* event that follows finds no listener.
handleError(s) ==
    /\ mt = <<>>
    /\ sock[s].st = "connecting"
    /\ sock' = [sock EXCEPT ![s].st = "closed"]
    /\ prom' = Settle(prom, sock[s].conn, "rejected", ErrorEv(s))
    /\ UNCHANGED <<cur, closeEvent, dataQ, cbQ, mt, wire, sendLog>>

\* handleMessage taking the newest waiting entry (pop() for shift())
handleMessagePop(s) ==
    /\ mt = <<>>
    /\ sock[s].wired
    /\ sock[s].st \in {"open", "closing"}
    /\ NMsgs < MaxMsgs
    /\ LET n == sock[s].delivered + 1
           last == cbQ[Len(cbQ)]
       IN
         /\ sock' = [sock EXCEPT ![s].delivered = n]
         /\ IF cbQ # <<>>
            THEN /\ IF last.kind = "recv"
                    THEN /\ cbQ' = SubSeq(cbQ, 1, Len(cbQ) - 1)
                         /\ prom' = Settle(prom, last.p, "resolved", Msg(s, n))
                    ELSE UNCHANGED <<cbQ, prom>>
                 /\ UNCHANGED dataQ
            ELSE /\ dataQ' = Append(dataQ, Msg(s, n))
                 /\ UNCHANGED <<cbQ, prom>>
    /\ UNCHANGED <<cur, closeEvent, mt, wire, sendLog>>

\* handleMessage without the return after completing a waiting entry: the
\* message is buffered as well
handleMessageNoReturn(s) ==
    /\ mt = <<>>
    /\ sock[s].wired
    /\ sock[s].st \in {"open", "closing"}
    /\ NMsgs < MaxMsgs
    /\ LET n == sock[s].delivered + 1 IN
         /\ sock' = [sock EXCEPT ![s].delivered = n]
         /\ dataQ' = Append(dataQ, Msg(s, n))
         /\ IF cbQ # <<>>
            THEN IF Head(cbQ).kind = "recv"
                 THEN /\ cbQ' = Tail(cbQ)
                      /\ prom' = Settle(prom, Head(cbQ).p, "resolved", Msg(s, n))
                 ELSE /\ cbQ' = Append(Tail(cbQ), Head(cbQ))
                      /\ UNCHANGED prom
            ELSE UNCHANGED <<cbQ, prom>>
    /\ UNCHANGED <<cur, closeEvent, mt, wire, sendLog>>

\* 'message' on WebSocket s: handleMessage.  The entry of a receive() resolves
\* its promise; the entry of a disconnect() pushes itself back.
handleMessage(s) ==
    /\ mt = <<>>
    /\ sock[s].wired
    /\ sock[s].st \in {"open", "closing"}
    /\ NMsgs < MaxMsgs
    /\ LET n == sock[s].delivered + 1 IN
         /\ sock' = [sock EXCEPT ![s].delivered = n]
         /\ IF cbQ # <<>>
            THEN /\ IF Head(cbQ).kind = "recv"
                    THEN /\ cbQ' = Tail(cbQ)
                         /\ prom' = Settle(prom, Head(cbQ).p, "resolved", Msg(s, n))
                    ELSE /\ cbQ' = Append(Tail(cbQ), Head(cbQ))
                         /\ UNCHANGED prom
                 /\ UNCHANGED dataQ
            ELSE /\ dataQ' = Append(dataQ, Msg(s, n))
                 /\ UNCHANGED <<cbQ, prom>>
    /\ UNCHANGED <<cur, closeEvent, mt, wire, sendLog>>

\* the connect promises chained on the disconnect() entries of queue q
Chained(q) ==
    LET ds == SelectSeq(q, LAMBDA e : e.kind = "disc" /\ prom[e.p].next # 0)
    IN  [j \in 1..Len(ds) |-> prom[ds[j].p].next]

InQueue(q, i) == \E j \in DOMAIN q : q[j].p = i

\* the close listener with an if for the while: only the oldest entry is failed
handleCloseOnce(s) ==
    /\ mt = <<>>
    /\ sock[s].wired
    /\ sock[s].st \in {"open", "closing"}
    /\ sock' = [sock EXCEPT ![s].st = "closed"]
    /\ closeEvent' = CloseEv(s)
    /\ IF cbQ = <<>>
       THEN UNCHANGED <<prom, cbQ, mt>>
       ELSE /\ prom' = Settle(prom, Head(cbQ).p,
                        IF Head(cbQ).kind = "recv" THEN "rejected" ELSE "resolved",
                        CloseEv(s))
            /\ cbQ' = Tail(cbQ)
            /\ mt' = mt \o Chained(<<Head(cbQ)>>)
    /\ UNCHANGED <<cur, dataQ, wire, sendLog>>

\* 'close' on WebSocket s: the close listener.  reject of a receive() entry
\* rejects; reject of a disconnect() entry is the resolve of its promise.
handleClose(s) ==
    /\ mt = <<>>
    /\ sock[s].wired
    /\ sock[s].st \in {"open", "closing"}
    /\ sock' = [sock EXCEPT ![s].st = "closed"]
    /\ closeEvent' = CloseEv(s)
    /\ prom' = [i \in DOMAIN prom |->
                  IF InQueue(cbQ, i) /\ prom[i].st = "pending"
                  THEN [prom[i] EXCEPT
                          !.st = IF prom[i].op = "receive" THEN "rejected" ELSE "resolved",
                          !.val = CloseEv(s)]
                  ELSE prom[i]]
    /\ cbQ' = <<>>
    /\ mt' = mt \o Chained(cbQ)
    /\ UNCHANGED <<cur, dataQ, wire, sendLog>>

Next ==
    \/ connect
    \/ connectThen
    \/ Disconnect
    \/ receive
    \/ \E d \in Payloads : send(d)
    \/ \E s \in DOMAIN sock : handleOpen(s)
    \/ \E s \in DOMAIN sock : handleError(s)
    \/ \E s \in DOMAIN sock : handleMessage(s)
    \/ \E s \in DOMAIN sock : handleClose(s)

Spec == Init /\ [][Next]_vars

\* ---- notions the properties share ----
Receives == {i \in DOMAIN prom : prom[i].op = "receive"}
Disconnects == {i \in DOMAIN prom : prom[i].op = "disconnect"}
Connects == {i \in DOMAIN prom : prom[i].op = "connect"}

\* every WebSocket the adapter created has closed and no then-callback is due:
\* no listener will run again
Quiescent == mt = <<>> /\ \A s \in DOMAIN sock : sock[s].st = "closed"

\* the close event of the current WebSocket has been observed
Dead == cur # 0 /\ sock[cur].wired /\ sock[cur].st = "closed"

\* the step is a receive() call / a send() call / the close event of WebSocket s
IsReceiveCall == Len(prom') = Len(prom) + 1 /\ prom'[Len(prom')].op = "receive"
IsSendCall == Len(sendLog') = Len(sendLog) + 1
IsCloseEvent(s) == sock[s].wired /\ sock[s].st # "closed" /\ sock'[s].st = "closed"

C2_QueueExclusivity == ~(dataQ # <<>> /\ cbQ # <<>>)

\* C2 (amended): the buffered-message queue and the receive() entries of the
\* pending-receiver queue are never both non-empty.
C2_ReceiverExclusivity ==
    ~(dataQ # <<>> /\ \E j \in DOMAIN cbQ : cbQ[j].kind = "recv")

\* C2 witness: messages are buffered while the entry of a disconnect() waits.
C2_Witness ==
    /\ dataQ # <<>>
    /\ \E j \in DOMAIN cbQ : cbQ[j].kind = "disc"

C4_DisconnectCompletes ==
    /\ \A i \in Disconnects : prom[i].st # "rejected"
    /\ Quiescent => \A i \in Disconnects : prom[i].st = "resolved"

\* C5: from the reset of a connect() on, the buffered messages, the terminal
\* record and whatever a receive() returns or fails with come from the
\* transport that connect() opened.
C5_ReconnectIsolation ==
    /\ \A j \in DOMAIN dataQ : dataQ[j].sock = cur
    /\ closeEvent # Null => closeEvent.sock = cur
    /\ \A i \in Receives :
          prom[i].val.t \in {"msg", "close"} => prom[i].val.sock = prom[i].sk

\* C6: send() while not connected fails with the terminal record if one is set
\* and the generic error otherwise, calls no transport send and changes neither
\* queue nor the terminal record; the transport's send is called by no other
\* step than a send() made while connected.
C6_SendPrecondition ==
    [][ /\ (IsSendCall /\ ~connected) =>
              /\ wire' = wire
              /\ dataQ' = dataQ /\ cbQ' = cbQ /\ closeEvent' = closeEvent
              /\ ~sendLog'[Len(sendLog')].ok
              /\ sendLog'[Len(sendLog')].err =
                    IF closeEvent.t = "close" THEN closeEvent ELSE NotConnectedError
        /\ wire' # wire => IsSendCall /\ connected ]_vars

\* C6 witness: a send() failed with the terminal record while another was
\* forwarded or failed with the generic error, and the transport saw exactly
\* the accepted ones.
C6_Witness ==
    /\ \E j \in DOMAIN sendLog : ~sendLog[j].ok /\ sendLog[j].err.t = "close"
    /\ \E j \in DOMAIN sendLog : ~sendLog[j].ok /\ sendLog[j].err = NotConnectedError
    /\ Len(wire) = Cardinality({j \in DOMAIN sendLog : sendLog[j].ok})

\* C7: once every close event has been delivered, no receive() that suspended
\* is still pending.
C7_ReceiveSettles ==
    Quiescent => \A i \in Receives : prom[i].susp => prom[i].st # "pending"

\* C8: once every transport has opened or failed and closed, no connect() is
\* still pending.
C8_ConnectSettles ==
    Quiescent => \A i \in Connects : prom[i].st # "pending"

\* C9: at the step that resolves a connect(), connected is true.
C9_ConnectPostcondition ==
    [][ \A i \in DOMAIN prom :
            (prom[i].op = "connect" /\ prom[i].st = "pending"
                 /\ prom'[i].st = "resolved") => connected' ]_vars

\* C10: at the step that resolves a disconnect(), the adapter's transport is
\* absent or closed, and if there is one the terminal record is set.
C10_DisconnectPostcondition ==
    [][ \A i \in DOMAIN prom' :
            (/\ prom'[i].op = "disconnect" /\ prom'[i].st = "resolved"
             /\ (i \in DOMAIN prom => prom[i].st = "pending")) =>
                \/ cur' = 0
                \/ sock'[cur'].st = "closed" /\ closeEvent' # Null ]_vars

\* the step is the then-callback of a connect(): a new WebSocket is created
IsConnectReset == Len(sock') = Len(sock) + 1

\* the step is a message event / the error event of WebSocket s
IsMessageEvent(s) == sock'[s].delivered = sock[s].delivered + 1
IsErrorEvent(s) == ~sock[s].wired /\ sock[s].st = "connecting" /\ sock'[s].st = "closed"

\* the step calls disconnect(), from the user or from connect()
IsDisconnectCall == Len(prom') > Len(prom) /\ prom'[Len(prom) + 1].op = "disconnect"

\* C11: at most one WebSocket created by the adapter is connecting, open or
\* closing at any time.
C11_OneTransport ==
    Cardinality({s \in DOMAIN sock : sock[s].st # "closed"}) <= 1

\* C12: between one connect's reset and the next the terminal record changes
\* only from absent to the close descriptor of the current connection.
C12_TerminalRecordWriteOnce ==
    [][ (closeEvent' # closeEvent /\ ~IsConnectReset) =>
            /\ closeEvent = Null
            /\ closeEvent' = CloseEv(cur)
            /\ IsCloseEvent(cur) ]_vars

\* C13: whenever the terminal record is set the pending-receiver queue is
\* empty, and while it stays set no payload is appended to the buffer.
C13_DeadConnection ==
    [][ /\ closeEvent' # Null => cbQ' = <<>>
        /\ (closeEvent # Null /\ ~IsConnectReset) => Len(dataQ') <= Len(dataQ) ]_vars

\* C14: the error event of a WebSocket that never opened fails its connect()
\* with that error, and right after it connected is false, both queues are
\* empty and the terminal record is absent; a failed connect() stays failed.
C14_ConnectFailure ==
    [][ /\ \A s \in DOMAIN sock : IsErrorEvent(s) =>
              /\ prom'[sock[s].conn].st = "rejected"
              /\ prom'[sock[s].conn].val = ErrorEv(s)
              /\ ~connected'
              /\ dataQ' = <<>> /\ cbQ' = <<>> /\ closeEvent' = Null
        /\ \A i \in Connects : prom[i].st = "rejected" => prom'[i] = prom[i] ]_vars

\* C15: receive() with a non-empty buffer, in any connection state, resolves at
\* once with the oldest buffered message, removes exactly that message
\* (dataAvailable drops by 1) and leaves the pending-receiver queue and the
\* terminal record unchanged.
C15_BufferedReceive ==
    [][ (IsReceiveCall /\ dataAvailable # 0) =>
            /\ prom'[Len(prom')].st = "resolved"
            /\ prom'[Len(prom')].val = dataQ[1]
            /\ dataQ' = SubSeq(dataQ, 2, Len(dataQ))
            /\ dataAvailable' = dataAvailable - 1
            /\ cbQ' = cbQ
            /\ closeEvent' = closeEvent ]_vars

\* C15 witness: on a closed connection a receive() got a buffered message at
\* once while another message is still buffered.
C15_Witness ==
    /\ Dead
    /\ dataAvailable = 1
    /\ \E i \in Receives :
          /\ prom[i].k = 0 /\ ~prom[i].susp /\ prom[i].st = "resolved"
          /\ prom[i].val = Msg(cur, 1)

\* C16: receive() while not connected and with an empty buffer fails at once,
\* registers no entry, and fails with the terminal record exactly when one is
\* set, with the generic not-connected error otherwise.
C16_UnconnectedReceive ==
    [][ (IsReceiveCall /\ ~connected /\ dataQ = <<>>) =>
            /\ prom'[Len(prom')].st = "rejected"
            /\ cbQ' = cbQ
            /\ closeEvent # Null => prom'[Len(prom')].val = closeEvent
            /\ closeEvent = Null => prom'[Len(prom')].val = NotConnectedError ]_vars

\* C16 witness: receive() failed with the generic error while connecting and,
\* after the close event, with the terminal record.
C16_Witness ==
    \E i, j \in Receives :
        /\ prom[i].st = "rejected" /\ prom[i].val = NotConnectedError /\ prom[i].sk # 0
        /\ prom[j].st = "rejected" /\ prom[j].val.t = "close" /\ ~prom[j].susp

Holders(m) ==
    Cardinality({j \in DOMAIN dataQ : dataQ[j] = m})
      + Cardinality({i \in Receives : prom[i].st = "resolved" /\ prom[i].val = m})

\* no message is in two places
NoDuplicate ==
    \A s \in DOMAIN sock : \A n \in 1..sock[s].delivered : Holders(Msg(s, n)) <= 1

\* the step completes exactly the receive() i with message m
HandsTo(i, m) ==
    /\ prom[i].op = "receive" /\ prom[i].st = "pending"
    /\ prom' = [prom EXCEPT ![i].st = "resolved", ![i].val = m]

\* C18: the entry of a disconnect() issued while open is not completed by a
\* message event and stays in the queue; it is completed only by the close
\* event of its own connection, with that connection's terminal record, in the
\* step that fails every receive() then waiting, and only once.
C18_DisconnectWaiter ==
    [][ \A i \in Disconnects :
            /\ (prom[i].susp /\ prom[i].st = "pending") =>
                  /\ \A s \in DOMAIN sock : IsMessageEvent(s) =>
                        /\ prom'[i].st = "pending"
                        /\ InQueue(cbQ, i) => InQueue(cbQ', i)
                  /\ prom'[i].st # "pending" =>
                        /\ prom'[i].st = "resolved"
                        /\ IsCloseEvent(prom[i].sk)
                        /\ prom'[i].val = CloseEv(prom[i].sk)
                        /\ \A j \in Receives :
                              InQueue(cbQ, j) => prom'[j].st = "rejected"
            /\ prom[i].st = "resolved" => prom'[i] = prom[i] ]_vars

\* C19 (as claimed): every message event of the current transport is handed
\* to exactly one receive() or appended to the buffer, and no message is in
\* two places.
C19_MessageConservation ==
    [][ /\ (cur # 0 /\ IsMessageEvent(cur)) =>
              LET m == Msg(cur, sock'[cur].delivered) IN
                \/ dataQ' = Append(dataQ, m) /\ prom' = prom
                \/ dataQ' = dataQ /\ \E i \in DOMAIN prom : HandsTo(i, m)
        /\ NoDuplicate' ]_vars

\* C19 (amended): a message event that finds the queue empty is appended to
\* the buffer; one that finds a receive() entry oldest is handed to exactly
\* that receive(); one that finds the entry of a disconnect() oldest is
\* discarded, the entry moving to the tail; no message is in two places.
C19_ConservationUnlessDisconnecting ==
    [][ /\ \A s \in DOMAIN sock : IsMessageEvent(s) =>
              LET m == Msg(s, sock'[s].delivered) IN
                IF cbQ = <<>>
                THEN dataQ' = Append(dataQ, m) /\ prom' = prom /\ cbQ' = cbQ
                ELSE IF cbQ[1].kind = "recv"
                THEN /\ HandsTo(cbQ[1].p, m)
                     /\ dataQ' = dataQ
                     /\ cbQ' = SubSeq(cbQ, 2, Len(cbQ))
                ELSE /\ dataQ' = dataQ /\ prom' = prom
                     /\ cbQ' = SubSeq(cbQ, 2, Len(cbQ)) \o <<cbQ[1]>>
        /\ NoDuplicate' ]_vars

\* C19 witness: of two messages of the only transport the first was handed
\* over or buffered, the second arrived after disconnect() and is nowhere.
C19_Witness ==
    /\ Len(sock) = 1 /\ sock[1].st = "closing" /\ sock[1].delivered = 2
    /\ Holders(Msg(1, 1)) = 1
    /\ Holders(Msg(1, 2)) = 0
    /\ cbQ # <<>> /\ cbQ[1].kind = "disc"

====
